---- MODULE Spec2Model ----
(***************************************************************************)
(* Krapi CMS Development Manager: the process-lifecycle supervisor.        *)
(*                                                                         *)
(* The repository holds two revisions of the manager script:               *)
(*   src/start-manager.py  (npm, ports 3470/3469; readiness by port probe) *)
(*       modelled by Init / Next / Spec;                                   *)
(*   src/StartManager.py   (pnpm, ports 3001/3000; readiness by marker)    *)
(*       modelled by SM_Init / SM_Next / SpecLegacy, definitions SM_*.     *)
(*                                                                         *)
(* A service child (the Popen'ed "npm run dev" and what it runs) is one    *)
(* unit of the environment: it may print lines, bind a port and exit at    *)
(* any time.  A log entry is its message text; the wall-clock timestamp    *)
(* prefix of the entry is left out.                                        *)
(*                                                                         *)
(* Commands (button callbacks, the calls of src/test-start.py) run one at  *)
(* a time on the thread that issues them; cmd and cmdq hold the command    *)
(* and the calls it still has to make, so that the other threads and the   *)
(* children interleave with it between those calls.  The state starts      *)
(* after construction and check_running_processes; what run() and          *)
(* check_dependencies log before the first command is left out.            *)
(* StartManager.py has no WebSocket entry: its websocket fields stay at    *)
(* their initial values.  When its start thread finds the handle replaced  *)
(* by a newer child, it waits for that child; that it also closes that     *)
(* child's pipe is left out.                                               *)
(*                                                                         *)
(* Parts of the scripts that do not interleave with the lifecycle are      *)
(* specified on their own, over the same variables:                        *)
(*   SpecLogs, SpecLegacyLogs   log_message and clear_logs;                *)
(*   SpecTest                   main() of src/test-start.py;               *)
(*   SpecLegacyDeps             check_dependencies of StartManager.py;     *)
(*   SpecWeb                    the HTTP handler of start-manager.py;      *)
(*   SpecPorts                  is_port_in_use and the frontend port scan. *)
(*   SpecEnv                    the environment handed to a child;         *)
(*   SpecLogRace                log_message called from two threads.       *)
(***************************************************************************)
EXTENDS Integers, Sequences, FiniteSets, TLC

VARIABLES
    process,      \* api_process, frontend_process, websocket_process (0 = None, else a child id)
    status,       \* api_status, frontend_status, websocket_status
    logs,         \* self.logs: channel -> list of entries
    npm_cmd,      \* self.npm_cmd is not None
    children,     \* every child the manager has spawned, by child id
    outThread,    \* per child: the thread draining its output
    chkThread,    \* per child: the check_*_startup thread of its start attempt
    cmd,          \* the command the command-issuing thread is in ("idle" if none)
    cmdq,         \* what that command still has to do
    mgr,          \* the manager process: "running" or "exited"
    manifest,     \* the services whose directory holds a package.json
    deps,         \* what else the host has: python, node, the services whose
                  \* directory holds node_modules, the right to list connections
    foreign,      \* connections of processes that are not the manager's children
    hist,         \* history: the services stopped while starting and not started since
    session       \* what the user does in this run: one service's buttons ("api",
                  \* "frontend"), start all and stop all ("all"), or start all
                  \* and then leaving, by the window or by an interrupt ("close")

vars == <<process, status, logs, npm_cmd, children, outThread, chkThread,
          cmd, cmdq, mgr, foreign, hist, session, manifest, deps>>

\* what is fixed when the manager is constructed
fixed == <<npm_cmd, session, manifest, deps>>

\* ------------------------------------------------------------------ bounds
\* children spawned in one run
MaxChildren == 2
\* output lines one child writes
MaxLines == 1
\* capacity of a log channel (1000 in log_message; scaled to keep the logs small)
LogCap == 1

\* --------------------------------------------------------------- constants
ApiPort == 3470
FrontendPort == 3469
FallbackPorts == <<3000, 3001, 3002, 3003>>

Services == {"api", "frontend"}
Procs == {"api", "frontend", "websocket"}
Sessions == Services \cup {"all", "close"}
Channels == {"combined", "api", "frontend", "websocket"}

None == 0

\* the port a service is expected on
Port(s) == IF s = "api" THEN ApiPort ELSE FrontendPort

\* ------------------------------------------------------------ message texts
AlreadyMsg == [api |-> "API server is already running",
               frontend |-> "Frontend server is already running"]
NoManifestMsg == [api |-> "Error: API server package.json not found",
                  frontend |-> "Error: Frontend package.json not found"]
StartingMsg == [api |-> "Starting API server...",
                frontend |-> "Starting frontend server..."]
InstallingMsg == [api |-> "Installing API dependencies...",
                  frontend |-> "Installing frontend dependencies..."]
InstallErrMsg == [api |-> "Error installing API dependencies",
                  frontend |-> "Error installing frontend dependencies"]
StartErrMsg == [api |-> "Error starting API server",
                frontend |-> "Error starting frontend server"]
StoppingMsg == [api |-> "Stopping API server...",
                frontend |-> "Stopping frontend server..."]
StoppedMsg == [api |-> "API server stopped",
               frontend |-> "Frontend server stopped"]
ReadErrMsg == [api |-> "Error reading API output",
               frontend |-> "Error reading frontend output"]
StartedMsg == [api |-> "API server started successfully on port 3470",
               frontend |-> "Frontend server started successfully on port 3469"]
FailedMsg == [api |-> "API server failed to start",
              frontend |-> "Frontend server failed to start"]
\* an output line of a child, as log_*_output logs it
LineMsg == [api |-> [ready |-> "[API] Server running on port 3470",
                     other |-> "[API] output"],
            frontend |-> [ready |-> "[Frontend] Ready in 2s",
                          other |-> "[Frontend] output"]]
LineKinds == {"ready", "other"}

\* -------------------------------------------------------------------- logs
LastN(q, n) == IF Len(q) > n THEN SubSeq(q, Len(q) - n + 1, Len(q)) ELSE q

\* a log_message without the fan-in: the entry goes to the named channel only
log_message_one_channel(L, message, log_type) ==
    [L EXCEPT ![log_type] = LastN(Append(@, message), LogCap)]

\* log_message(message, log_type) of start-manager.py, as a function of self.logs
log_message(L, message, log_type) ==
    LET L1 == [L EXCEPT ![log_type] = Append(@, message)]
        L2 == IF log_type # "combined"
              THEN [L1 EXCEPT !["combined"] = Append(@, message)]
              ELSE L1
    IN IF Len(L2[log_type]) > LogCap
       THEN [L2 EXCEPT ![log_type] = LastN(@, LogCap)]
       ELSE L2

\* ------------------------------------------------------------------- ports
Alive(i) == children[i].st = "alive"

\* psutil.net_connections(): the sockets of live children and of foreign processes
net_connections ==
    {[lport |-> children[i].port, status |-> "LISTEN"] :
        i \in {j \in DOMAIN children : Alive(j) /\ children[j].port # 0}}
    \cup foreign

is_port_in_use(port) == \E conn \in net_connections : conn.lport = port

\* the initial sets of foreign connections the model starts from
ForeignChoices == {{}, {[lport |-> ApiPort, status |-> "LISTEN"],
                        [lport |-> 3000, status |-> "LISTEN"]}}

\* check_running_processes, run once the manager is constructed: the statuses
\* with the connections conns on the host
ExternalPortText(port) ==
    CASE port = 3469 -> "Running (External - Port 3469)"
      [] port = 3000 -> "Running (External - Port 3000)"
      [] port = 3001 -> "Running (External - Port 3001)"
      [] port = 3002 -> "Running (External - Port 3002)"
      [] port = 3003 -> "Running (External - Port 3003)"
check_running_processes(conns) ==
    LET used(port) == \E conn \in conns : conn.lport = port
        scan == <<FrontendPort>> \o FallbackPorts
        hit == {k \in DOMAIN scan : used(scan[k])}
    IN [p \in Procs |->
          CASE p = "api" -> IF used(ApiPort) THEN "Running (External)" ELSE "Stopped"
            [] p = "frontend" ->
                  IF hit = {} THEN "Stopped"
                  ELSE ExternalPortText(scan[CHOOSE k \in hit : \A m \in hit : k <= m])
            [] OTHER -> "Stopped"]

\* ---------------------------------------------------------------- the state
\* a child: sig is the last signal the manager sent it (0: none); at is the
\* status its service had when it exited by itself ("" until then)
NewChild(s) == [svc |-> s, st |-> "alive", sig |-> 0, left |-> MaxLines, port |-> 0,
                at |-> ""]

Op(o, s) == [op |-> o, svc |-> s, mid |-> FALSE]
\* a host with python and node, node_modules in both service directories, and
\* the right to list the connections of the host
AllDeps == [python |-> TRUE, node |-> TRUE, modules |-> Services, netstat |-> TRUE]
\* the command thread is in no command; rt: the last command was start_all_services
AfterCmd(n) == [name |-> "idle", had |-> {}, rt |-> (n = "start_all_services"),
                queued |-> FALSE]
NoCmd == AfterCmd("idle")
\* the command thread enters a command; had: the services with a handle at a
\* stop-all; rt: it is the stop-all that directly follows a start-all

Init ==
    /\ process = [p \in Procs |-> None]
    /\ foreign \in ForeignChoices
    /\ status = check_running_processes(foreign)
    /\ logs = [c \in Channels |-> <<>>]
    /\ npm_cmd \in BOOLEAN
    /\ manifest \in {Services, {"frontend"}}
    /\ deps = AllDeps
    /\ children = <<>>
    /\ outThread = <<>>
    /\ chkThread = <<>>
    /\ cmd = NoCmd
    /\ cmdq = <<>>
    /\ mgr = "running"
    /\ hist = [midStop |-> {}]
    /\ session \in Sessions

Idle == mgr = "running" /\ cmd.name = "idle"
InCmd(n) == [name |-> n,
             had |-> IF n \in {"stop_all_services", "on_closing"}
                     THEN {s \in Services : process[s] # None} ELSE {},
             rt |-> (n = "stop_all_services" /\ cmd.rt),
             queued |-> FALSE]
Doing(o, s) == mgr = "running" /\ cmdq # <<>> /\ Head(cmdq) = Op(o, s)

\* the step is done; with nothing left to do the command returns
Pop == /\ cmdq' = Tail(cmdq)
       /\ cmd' = IF Tail(cmdq) = <<>> THEN AfterCmd(cmd.name) ELSE cmd

\* ------------------------------------------------- commands (GUI buttons, test)
\* start_all_services: logs, then start API, WebSocket and frontend in that order
start_all_services ==
    /\ Idle
    /\ session \in {"all", "close"}
    /\ Len(children) + 2 <= MaxChildren
    /\ cmd' = InCmd("start_all_services")
    /\ logs' = log_message(logs, "Starting all services...", "combined")
    /\ cmdq' = <<Op("start", "api"), Op("start_ws", "websocket"), Op("start", "frontend")>>
    /\ UNCHANGED <<process, status, fixed, children, outThread, chkThread, mgr, foreign, hist>>

\* stop_all_services: logs, then stop API, WebSocket and frontend in that order
stop_all_services ==
    /\ Idle
    /\ session = "all"
    /\ cmd' = InCmd("stop_all_services")
    /\ logs' = log_message(logs, "Stopping all services...", "combined")
    /\ cmdq' = <<Op("stop", "api"), Op("stop_ws", "websocket"), Op("stop", "frontend")>>
    /\ UNCHANGED <<process, status, fixed, children, outThread, chkThread, mgr, foreign, hist>>

\* the Start API / Start Frontend buttons
start_button(s) ==
    /\ Idle
    /\ session = s
    /\ Len(children) < MaxChildren
    /\ cmd' = InCmd("start_server")
    /\ cmdq' = <<Op("start", s)>>
    /\ UNCHANGED <<process, status, logs, fixed, children, outThread, chkThread, mgr, foreign, hist>>

\* the Stop API / Stop Frontend buttons
stop_button(s) ==
    /\ Idle
    /\ session = s
    /\ cmd' = InCmd("stop_server")
    /\ cmdq' = <<Op("stop", s)>>
    /\ UNCHANGED <<process, status, logs, fixed, children, outThread, chkThread, mgr, foreign, hist>>

\* on_closing, the user confirming: stop_all_services(), then root.destroy()
on_closing ==
    /\ Idle
    /\ session = "close"
    /\ cmd' = InCmd("on_closing")
    /\ logs' = log_message(logs, "Stopping all services...", "combined")
    /\ cmdq' = <<Op("stop", "api"), Op("stop_ws", "websocket"), Op("stop", "frontend"),
                 Op("destroy", "websocket")>>
    /\ UNCHANGED <<process, status, fixed, children, outThread, chkThread, mgr, foreign, hist>>

\* root.destroy(): mainloop returns, run and main return, the process exits
destroy ==
    /\ Doing("destroy", "websocket")
    /\ Pop
    /\ mgr' = "exited"
    /\ UNCHANGED <<process, status, logs, fixed, children, outThread, chkThread, foreign, hist>>

\* KeyboardInterrupt in serve_forever / mainloop, or an exception in main:
\* main prints and returns (or sys.exit(1)); its daemon threads end with it
KeyboardInterrupt ==
    /\ Idle
    /\ session = "close"
    /\ mgr' = "exited"
    /\ UNCHANGED <<process, status, logs, fixed, children, outThread, chkThread, cmd, cmdq, foreign, hist>>

\* ------------------------------------------ start_api_server / start_frontend_server
StartFrame == UNCHANGED <<fixed, mgr, foreign>>
StartHist(s) == hist' = [hist EXCEPT !.midStop = @ \ {s}]
NoSpawn == UNCHANGED <<process, status, children, outThread, chkThread>>

\* an "already running" branch that announces the start before it returns
StartAlreadyAnnounced(s) ==
    /\ process[s] # None /\ Alive(process[s])
    /\ logs' = log_message(logs, AlreadyMsg[s], "combined")
    /\ status' = [status EXCEPT ![s] = "Starting..."]
    /\ UNCHANGED <<process, children, outThread, chkThread>>

\* the tracked child is still alive: log and return
StartAlready(s) ==
    /\ process[s] # None /\ Alive(process[s])
    /\ logs' = log_message(logs, AlreadyMsg[s], "combined")
    /\ NoSpawn

StartNoNpm(s) ==
    /\ ~(process[s] # None /\ Alive(process[s]))
    /\ ~npm_cmd
    /\ logs' = log_message(logs, "Error: npm not found. Please install Node.js", "combined")
    /\ NoSpawn

\* package.json is missing
StartNoManifest(s) ==
    /\ ~(process[s] # None /\ Alive(process[s]))
    /\ npm_cmd
    /\ s \notin manifest
    /\ logs' = log_message(logs, NoManifestMsg[s], "combined")
    /\ NoSpawn

\* the blocking `npm install` of a start; stopq: the Stop button of the
\* service was clicked meanwhile and the click waits for the main thread
InstallOp(s, q) == [op |-> "install", svc |-> s, mid |-> FALSE, stopq |-> q]
Installing(s) == mgr = "running" /\ cmdq # <<>> /\ Head(cmdq).op = "install"
                 /\ Head(cmdq).svc = s

\* node_modules is missing: the logs, then subprocess.run([npm, "install"]) blocks
StartInstall(s) ==
    /\ ~(process[s] # None /\ Alive(process[s]))
    /\ npm_cmd
    /\ s \in manifest
    /\ logs' = log_message(log_message(logs, StartingMsg[s], "combined"),
                            InstallingMsg[s], "combined")
    /\ cmdq' = <<InstallOp(s, FALSE)>> \o Tail(cmdq)
    /\ cmd' = cmd
    /\ NoSpawn

\* node_modules is present and subprocess.Popen raises: the except clause logs
StartRaise(s) ==
    /\ ~(process[s] # None /\ Alive(process[s]))
    /\ npm_cmd
    /\ s \in manifest
    /\ logs' = log_message(log_message(logs,
                  StartingMsg[s], "combined"),
                  StartErrMsg[s], "combined")
    /\ NoSpawn

\* Popen succeeds: the handle, the log thread, the status, the check thread
Spawn(s) ==
    /\ Len(children) < MaxChildren
    /\ children' = Append(children, NewChild(s))
    /\ process' = [process EXCEPT ![s] = Len(children) + 1]
    /\ outThread' = Append(outThread, "read")
    /\ status' = [status EXCEPT ![s] = "Starting..."]
    /\ chkThread' = Append(chkThread, "sleep")

\* node_modules is present and Popen succeeds
StartSpawn(s) ==
    /\ ~(process[s] # None /\ Alive(process[s]))
    /\ npm_cmd
    /\ s \in manifest
    /\ logs' = log_message(logs, StartingMsg[s], "combined")
    /\ Spawn(s)

start_server(s) ==
    /\ Doing("start", s)
    /\ StartFrame
    /\ StartHist(s)
    /\ \/ /\ Pop
          /\ \/ StartAlready(s)
             \/ StartNoNpm(s)
             \/ StartNoManifest(s)
             \/ StartRaise(s)
             \/ StartSpawn(s)
       \/ StartInstall(s)

\* the start returns to the main loop; a Stop click made while it blocked is
\* dispatched next
Return(q, s) ==
    IF Tail(cmdq) # <<>> THEN cmdq' = Tail(cmdq) /\ cmd' = cmd
    ELSE IF q THEN /\ cmdq' = <<Op("stop", s)>>
                   /\ cmd' = [InCmd("stop_server") EXCEPT !.queued = TRUE]
    ELSE cmdq' = <<>> /\ cmd' = AfterCmd(cmd.name)

\* npm install returns non-zero: the log and the return
StartInstallFail(s) ==
    /\ logs' = log_message(logs, InstallErrMsg[s], "combined")
    /\ NoSpawn

\* subprocess.run raises, or Popen raises after the install
StartInstallRaise(s) ==
    /\ logs' = log_message(logs, StartErrMsg[s], "combined")
    /\ NoSpawn

\* npm install has returned: the rest of the start
install_done(s) ==
    /\ Installing(s)
    /\ Return(Head(cmdq).stopq, s)
    /\ StartFrame
    /\ UNCHANGED hist
    /\ \/ StartInstallFail(s)
       \/ StartInstallRaise(s)
       \/ UNCHANGED logs /\ Spawn(s)

\* the Stop button of the service is clicked while npm install blocks the
\* main thread: the callback runs when the start has returned
stop_click(s) ==
    /\ Installing(s)
    /\ session = s
    /\ cmd.name = "start_server"
    /\ ~Head(cmdq).stopq
    /\ cmdq' = <<InstallOp(s, TRUE)>> \o Tail(cmdq)
    /\ UNCHANGED <<process, status, logs, fixed, children, outThread, chkThread, cmd, mgr,
                   foreign, hist>>

start_api_server == start_server("api")
start_frontend_server == start_server("frontend")

\* start_websocket_server: the WebSocket is part of the API server
start_websocket_server ==
    /\ Doing("start_ws", "websocket")
    /\ Pop
    /\ logs' = log_message(logs, "WebSocket server is integrated with API server on port 3470/ws",
                           "combined")
    /\ status' = [status EXCEPT !["websocket"] = "Integrated with API"]
    /\ UNCHANGED <<process, fixed, children, outThread, chkThread, mgr, foreign, hist>>

\* ---------------------------------------------- stop_api_server / stop_frontend_server
\* Popen.terminate(): SIGTERM to a child that has not exited
terminate(ch, h) == IF ch[h].st = "alive" THEN [ch EXCEPT ![h].sig = 15] ELSE ch
\* a kill that leaves the child running
kill_without_effect(ch, h) == ch
\* Popen.kill(): SIGKILL ends the child
kill(ch, h) == IF ch[h].st = "alive"
               THEN [ch EXCEPT ![h].st = "exited", ![h].port = 0,
                                ![h].sig = IF @ = 0 THEN 9 ELSE @]
               ELSE ch

\* `if self.api_process:` and, with a handle, the log and terminate()
stop_begin(s) ==
    /\ Doing("stop", s)
    /\ IF process[s] = None
       THEN /\ Pop
            /\ UNCHANGED <<logs, children, hist>>
       ELSE /\ logs' = log_message(logs, StoppingMsg[s], "combined")
            /\ children' = terminate(children, process[s])
            /\ cmdq' = <<[op |-> "stop_wait", svc |-> s, mid |-> (status[s] = "Starting...")]>>
                        \o Tail(cmdq)
            /\ UNCHANGED <<cmd, hist>>
    /\ UNCHANGED <<process, status, fixed, outThread, chkThread, mgr, foreign>>

\* wait(timeout=10) returns, or times out and the child is killed; then the
\* handle is cleared, the status set and the stop logged
stop_end(s) ==
    /\ mgr = "running" /\ cmdq # <<>>
    /\ Head(cmdq).op = "stop_wait" /\ Head(cmdq).svc = s
    /\ Pop
    /\ children' = kill(children, process[s])
    /\ process' = [process EXCEPT ![s] = None]
    /\ status' = [status EXCEPT ![s] = "Stopped"]
    /\ logs' = log_message(logs, StoppedMsg[s], "combined")
    /\ hist' = [hist EXCEPT !.midStop = IF Head(cmdq).mid THEN @ \cup {s} ELSE @]
    /\ UNCHANGED <<fixed, outThread, chkThread, mgr, foreign>>

\* a stop that could fail on a child that has already exited
stop_raise_on_any_handle(s) ==
    /\ Doing("stop", s)
    /\ process[s] # None
    /\ cmdq' = <<>>
    /\ cmd' = AfterCmd(cmd.name)
    /\ UNCHANGED <<process, status, logs, fixed, children, outThread, chkThread, mgr, foreign,
                   hist>>

\* terminate() or wait() raises something other than TimeoutExpired: nothing
\* catches it, the stop and the command that called it are abandoned.  Only
\* for a child still running: for one that has exited, terminate() sends
\* nothing and wait() returns its code
stop_raise(s) ==
    /\ Doing("stop", s)
    /\ process[s] # None
    /\ Alive(process[s])
    /\ logs' = log_message(logs, StoppingMsg[s], "combined")
    /\ cmdq' = <<>>
    /\ cmd' = AfterCmd(cmd.name)
    /\ UNCHANGED <<process, status, fixed, children, outThread, chkThread, mgr, foreign, hist>>

stop_server(s) == stop_begin(s) \/ stop_end(s) \/ stop_raise(s)

stop_api_server == stop_server("api")
stop_frontend_server == stop_server("frontend")

\* stop_websocket_server: websocket_process is never set, so this is the empty branch
\* a stop of the WebSocket entry that resets the status with no handle tracked
stop_websocket_server_resetting ==
    /\ Doing("stop_ws", "websocket")
    /\ Pop
    /\ status' = [status EXCEPT !["websocket"] = "Stopped"]
    /\ UNCHANGED <<process, logs, fixed, children, outThread, chkThread, mgr, foreign, hist>>

stop_websocket_server ==
    /\ Doing("stop_ws", "websocket")
    /\ Pop
    /\ IF process["websocket"] # None
       THEN /\ process' = [process EXCEPT !["websocket"] = None]
            /\ status' = [status EXCEPT !["websocket"] = "Stopped"]
            /\ logs' = log_message(log_message(logs, "Stopping WebSocket server...", "combined"),
                                   "WebSocket server stopped", "combined")
       ELSE UNCHANGED <<process, status, logs>>
    /\ UNCHANGED <<fixed, children, outThread, chkThread, mgr, foreign, hist>>

\* --------------------------------------------- log_api_output / log_frontend_output
\* The thread is started right after Popen and takes its first look at the
\* handle (`if not self.api_process: return`, iter(self.api_process.stdout.readline, ''))
\* before the command thread can clear or replace it: it drains its own child.
ThreadFrame == UNCHANGED <<fixed, cmd, cmdq, mgr, foreign, hist>>

\* readline(): a line the child writes, which is logged to the service's
\* channel, or EOF once the child has exited
log_output_read(i) ==
    /\ outThread[i] = "read"
    /\ LET s == children[i].svc
       IN IF Alive(i)
          THEN /\ children[i].left > 0
               /\ \E k \in LineKinds : logs' = log_message(logs, LineMsg[s][k], s)
               /\ children' = [children EXCEPT ![i].left = @ - 1]
               /\ outThread' = [outThread EXCEPT ![i] = "poll"]
          ELSE /\ outThread' = [outThread EXCEPT ![i] = "done"]
               /\ UNCHANGED <<logs, children>>
    /\ UNCHANGED <<process, status, chkThread>>

\* `if self.api_process.poll() is not None: break`, on the handle tracked now;
\* with the handle cleared the AttributeError is caught and logged
log_output_poll(i) ==
    /\ outThread[i] = "poll"
    /\ LET s == children[i].svc
       IN IF process[s] = None
          THEN /\ logs' = log_message(logs, ReadErrMsg[s], "combined")
               /\ outThread' = [outThread EXCEPT ![i] = "done"]
          ELSE /\ outThread' = [outThread EXCEPT ![i] =
                                   IF Alive(process[s]) THEN "read" ELSE "done"]
               /\ UNCHANGED logs
    /\ UNCHANGED <<process, status, children, chkThread>>

log_output(i) ==
    /\ mgr = "running"
    /\ ThreadFrame
    /\ \/ log_output_read(i)
       \/ log_output_poll(i)

\* ------------------------------------------- check_api_startup / check_frontend_startup
RunningPortText(port) ==
    CASE port = 3000 -> "Running (Port 3000)"
      [] port = 3001 -> "Running (Port 3001)"
      [] port = 3002 -> "Running (Port 3002)"
      [] port = 3003 -> "Running (Port 3003)"
FallbackMsg(port) ==
    CASE port = 3000 -> "Frontend server started on port 3000 instead of 3469"
      [] port = 3001 -> "Frontend server started on port 3001 instead of 3469"
      [] port = 3002 -> "Frontend server started on port 3002 instead of 3469"
      [] port = 3003 -> "Frontend server started on port 3003 instead of 3469"

\* a scan that keeps the last fallback port in use
LastFallback ==
    LET hit == {k \in DOMAIN FallbackPorts : is_port_in_use(FallbackPorts[k])}
    IN IF hit = {} THEN 0
       ELSE FallbackPorts[CHOOSE k \in hit : \A m \in hit : k >= m]

\* the first fallback port in use, 0 when there is none (the for ... else)
FirstFallback ==
    LET hit == {k \in DOMAIN FallbackPorts : is_port_in_use(FallbackPorts[k])}
    IN IF hit = {} THEN 0
       ELSE FallbackPorts[CHOOSE k \in hit : \A m \in hit : k <= m]

\* what the check decides: <<status, log message>>
check_api_startup == IF is_port_in_use(ApiPort)
                     THEN <<"Running", StartedMsg["api"]>>
                     ELSE <<"Failed to start", FailedMsg["api"]>>
check_frontend_startup ==
    IF is_port_in_use(FrontendPort)
    THEN <<"Running", StartedMsg["frontend"]>>
    ELSE IF FirstFallback # 0
         THEN <<RunningPortText(FirstFallback), FallbackMsg(FirstFallback)>>
         ELSE <<"Failed to start", FailedMsg["frontend"]>>

\* a check that gives up on the child when it decides "Failed to start"
check_startup_giving_up(i) ==
    /\ mgr = "running"
    /\ chkThread[i] = "sleep"
    /\ chkThread' = [chkThread EXCEPT ![i] = "done"]
    /\ LET s == children[i].svc
           d == IF s = "api" THEN check_api_startup ELSE check_frontend_startup
       IN /\ status' = [status EXCEPT ![s] = d[1]]
          /\ logs' = log_message(logs, d[2], "combined")
          /\ process' = IF d[1] = "Failed to start" THEN [process EXCEPT ![s] = None]
                        ELSE process
    /\ UNCHANGED <<children, outThread>>
    /\ ThreadFrame

\* the check thread wakes from its sleep, probes and sets the status
check_startup(i) ==
    /\ mgr = "running"
    /\ chkThread[i] = "sleep"
    /\ chkThread' = [chkThread EXCEPT ![i] = "done"]
    /\ LET s == children[i].svc
           d == IF s = "api" THEN check_api_startup ELSE check_frontend_startup
       IN /\ status' = [status EXCEPT ![s] = d[1]]
          /\ logs' = log_message(logs, d[2], "combined")
    /\ UNCHANGED <<process, children, outThread>>
    /\ ThreadFrame

\* ------------------------------------------------------------- the children
EnvFrame == UNCHANGED <<process, status, logs, fixed, outThread, chkThread,
                        cmd, cmdq, mgr, foreign, hist>>

\* the child starts listening on a free port
ChildBind(i) ==
    /\ mgr = "running"
    /\ Alive(i)
    /\ children[i].port = 0
    /\ ~is_port_in_use(Port(children[i].svc))
    /\ children' = [children EXCEPT ![i].port = Port(children[i].svc)]
    /\ EnvFrame

\* the child exits, on its own or on the SIGTERM it was sent
ChildExit(i) ==
    /\ mgr = "running"
    /\ Alive(i)
    /\ children' = [children EXCEPT ![i].st = "exited", ![i].port = 0,
                                     ![i].at = status[children[i].svc]]
    /\ EnvFrame

\* --------------------------------------------------------- the specification
Next ==
    \/ start_all_services
    \/ stop_all_services
    \/ \E s \in Services : start_button(s)
    \/ \E s \in Services : stop_button(s)
    \/ on_closing
    \/ destroy
    \/ KeyboardInterrupt
    \/ start_api_server
    \/ start_frontend_server
    \/ start_websocket_server
    \/ \E s \in Services : install_done(s)
    \/ \E s \in Services : stop_click(s)
    \/ stop_api_server
    \/ stop_frontend_server
    \/ stop_websocket_server
    \/ \E i \in DOMAIN children : log_output(i)
    \/ \E i \in DOMAIN children : check_startup(i)
    \/ \E i \in DOMAIN children : ChildBind(i)
    \/ \E i \in DOMAIN children : ChildExit(i)

Spec == Init /\ [][Next]_vars

(***************************************************************************)
(* src/StartManager.py, the pnpm revision.  A start spawns a thread that   *)
(* kills whatever holds the port, sleeps, spawns the child, drains its     *)
(* output looking for the readiness marker, and waits for its exit; there  *)
(* is no check thread.  outThread[i] is that thread, children[i] the child *)
(* it spawns ("unborn" until then).                                        *)
(***************************************************************************)
SM_ApiPort == 3001
SM_FrontendPort == 3000
SM_Port(s) == IF s = "api" THEN SM_ApiPort ELSE SM_FrontendPort
SM_Channels == {"combined", "api", "frontend"}

SM_AlreadyMsg == [api |-> "API server is already running",
                  frontend |-> "Frontend is already running"]
SM_StartingMsg == [api |-> "Starting API server...", frontend |-> "Starting frontend..."]
SM_StartErrMsg == [api |-> "Error starting API server", frontend |-> "Error starting frontend"]
SM_StoppingMsg == [api |-> "Stopping API server...", frontend |-> "Stopping frontend..."]
SM_StoppedMsg == [api |-> "API server stopped", frontend |-> "Frontend stopped"]
SM_StopErrMsg == [api |-> "Error stopping API server", frontend |-> "Error stopping frontend"]
SM_KilledMsg == [api |-> "API server force killed", frontend |-> "Frontend force killed"]
SM_ExitedMsg == [api |-> "API server exited with code", frontend |-> "Frontend exited with code"]
SM_LineMsg == [api |-> [ready |-> "Server running on port 3001", other |-> "output"],
               frontend |-> [ready |-> "Local: http://localhost:3000", other |-> "output"]]

\* log_message(message, log_type) of StartManager.py: always to the combined
\* list, then to the list of log_type when there is one; nothing is trimmed
SM_log_message(L, message, log_type) ==
    LET L1 == [L EXCEPT !["combined"] = Append(@, message)]
    IN IF log_type \in DOMAIN L1
       THEN [L1 EXCEPT ![log_type] = Append(@, message)]
       ELSE L1

\* is_port_in_use of StartManager.py: only listening sockets count
SM_is_port_in_use(conns, port) ==
    \E conn \in conns : conn.lport = port /\ conn.status = "LISTEN"

\* the initial sets of foreign connections: none; or a listener on the API
\* port and a process with a connected socket whose local port is the frontend's
SM_ForeignChoices == {{}, {[lport |-> SM_ApiPort, status |-> "LISTEN"],
                           [lport |-> SM_FrontendPort, status |-> "ESTABLISHED"]}}

\* check_running_processes of StartManager.py
SM_check_running_processes(conns) ==
    [p \in Procs |-> IF p \in Services /\ SM_is_port_in_use(conns, SM_Port(p))
                     THEN "Running" ELSE "Stopped"]

SM_Init ==
    /\ process = [p \in Procs |-> None]
    /\ foreign \in SM_ForeignChoices
    /\ status = SM_check_running_processes(foreign)
    /\ logs = [c \in SM_Channels |-> <<>>]
    /\ npm_cmd = TRUE
    /\ manifest = {"api"}
    /\ deps = AllDeps
    /\ children = <<>>
    /\ outThread = <<>>
    /\ chkThread = <<>>
    /\ cmd = NoCmd
    /\ cmdq = <<>>
    /\ mgr = "running"
    /\ hist = [midStop |-> {}]
    /\ session \in Sessions

\* the commands are issued while the combined log is shorter than this
MaxLog == 5
LogRoom == Len(logs["combined"]) < MaxLog

\* kill_port(port): every process with a connection on the port is killed,
\* a child of the manager or not, and each kill is logged
SM_kill_port_children(ch, port) ==
    [i \in DOMAIN ch |-> IF ch[i].st = "alive" /\ ch[i].port = port
                         THEN [ch[i] EXCEPT !.st = "exited", !.port = 0, !.sig = 9]
                         ELSE ch[i]]
SM_kill_port_foreign(conns, port) == {conn \in conns : conn.lport # port}
SM_kill_port_logs(L, ch, conns, port) ==
    IF (\E i \in DOMAIN ch : ch[i].st = "alive" /\ ch[i].port = port)
       \/ (\E conn \in conns : conn.lport = port)
    THEN SM_log_message(L, "Killed process using port", "combined")
    ELSE L

\* ------------------------------------------------------------ SM: commands
SM_start_all_services ==
    /\ Idle /\ LogRoom
    /\ session \in {"all", "close"}
    /\ Len(children) + 2 <= MaxChildren
    /\ cmd' = InCmd("start_all_services")
    /\ logs' = SM_log_message(logs, "Starting all services...", "combined")
    /\ cmdq' = <<Op("start", "api"), Op("start", "frontend")>>
    /\ UNCHANGED <<process, status, fixed, children, outThread, chkThread, mgr, foreign, hist>>

SM_stop_all_services ==
    /\ Idle /\ LogRoom
    /\ session = "all"
    /\ cmd' = InCmd("stop_all_services")
    /\ logs' = SM_log_message(logs, "Stopping all services...", "combined")
    /\ cmdq' = <<Op("stop", "api"), Op("stop", "frontend")>>
    /\ UNCHANGED <<process, status, fixed, children, outThread, chkThread, mgr, foreign, hist>>

SM_start_button(s) ==
    /\ Idle /\ LogRoom
    /\ session = s
    /\ Len(children) < MaxChildren
    /\ cmd' = InCmd("start_server")
    /\ cmdq' = <<Op("start", s)>>
    /\ UNCHANGED <<process, status, logs, fixed, children, outThread, chkThread, mgr, foreign, hist>>

SM_stop_button(s) ==
    /\ Idle /\ LogRoom
    /\ session = s
    /\ cmd' = InCmd("stop_server")
    /\ cmdq' = <<Op("stop", s)>>
    /\ UNCHANGED <<process, status, logs, fixed, children, outThread, chkThread, mgr, foreign, hist>>

\* on_closing in the GUI, the user confirming: stop_all_services(), a sleep, root.destroy()
SM_on_closing ==
    /\ Idle /\ LogRoom
    /\ session = "close"
    /\ cmd' = InCmd("on_closing")
    /\ logs' = SM_log_message(logs, "Stopping all services...", "combined")
    /\ cmdq' = <<Op("stop", "api"), Op("stop", "frontend"), Op("destroy", "websocket")>>
    /\ UNCHANGED <<process, status, fixed, children, outThread, chkThread, mgr, foreign, hist>>

\* ------------------------------------------- SM: start_api_server / start_frontend
\* the caller's part: the guard, and the thread it starts
SM_start_server(s) ==
    /\ Doing("start", s)
    /\ Pop
    /\ hist' = [hist EXCEPT !.midStop = @ \ {s}]
    /\ IF process[s] # None /\ Alive(process[s])
       THEN /\ logs' = SM_log_message(logs, SM_AlreadyMsg[s], s)
            /\ UNCHANGED <<children, outThread, chkThread>>
       ELSE /\ Len(children) < MaxChildren
            /\ children' = Append(children, [NewChild(s) EXCEPT !.st = "unborn"])
            /\ outThread' = Append(outThread, [pc |-> "begin", w |-> None])
            /\ chkThread' = Append(chkThread, "done")
            /\ UNCHANGED logs
    /\ UNCHANGED <<process, status, fixed, mgr, foreign>>

SM_start_api_server == SM_start_server("api")
SM_start_frontend == SM_start_server("frontend")

\* the thread: the log, the status, kill_port; then it sleeps
SM_start_begin(i) ==
    /\ outThread[i].pc = "begin"
    /\ LET s == children[i].svc
       IN /\ logs' = SM_kill_port_logs(SM_log_message(logs, SM_StartingMsg[s], s),
                                       children, foreign, SM_Port(s))
          /\ status' = [status EXCEPT ![s] = "Starting..."]
          /\ children' = SM_kill_port_children(children, SM_Port(s))
          /\ foreign' = SM_kill_port_foreign(foreign, SM_Port(s))
    /\ outThread' = [outThread EXCEPT ![i].pc = "spawn"]
    /\ UNCHANGED <<process, fixed, chkThread, cmd, cmdq, mgr, hist>>

\* the thread: Popen, which stores the handle; or Popen raises and the
\* except clause logs and sets the status
SM_start_spawn(i) ==
    /\ outThread[i].pc = "spawn"
    /\ LET s == children[i].svc
       IN \/ /\ children' = [children EXCEPT ![i].st = "alive"]
             /\ process' = [process EXCEPT ![s] = i]
             /\ outThread' = [outThread EXCEPT ![i].pc = "read"]
             /\ UNCHANGED <<status, logs>>
          \/ /\ logs' = SM_log_message(logs, SM_StartErrMsg[s], s)
             /\ status' = [status EXCEPT ![s] = "Error"]
             /\ outThread' = [outThread EXCEPT ![i].pc = "done"]
             /\ UNCHANGED <<children, process>>
    /\ UNCHANGED <<fixed, chkThread, cmd, cmdq, mgr, foreign, hist>>

\* the thread after the loop: self.api_process.stdout.close() and
\* self.api_process.wait() on the handle tracked now; with the handle cleared
\* the AttributeError is caught, logged, and the status set to Error
SM_start_close(L, st, ot, i, s, h) ==
    IF h = None
    THEN <<SM_log_message(L, SM_StartErrMsg[s], s), [st EXCEPT ![s] = "Error"],
           [ot EXCEPT ![i].pc = "done"]>>
    ELSE <<L, st, [ot EXCEPT ![i] = [pc |-> "wait", w |-> h]]>>

\* the thread: readline() gives a line, logged and searched for the marker;
\* or it gives EOF, the loop ends, and the thread closes and waits
SM_start_read(i) ==
    /\ outThread[i].pc = "read"
    /\ LET s == children[i].svc
           after == SM_start_close(logs, status, outThread, i, s, process[s])
       IN IF Alive(i)
          THEN /\ children[i].left > 0
               /\ \E k \in LineKinds :
                     /\ logs' = SM_log_message(logs, SM_LineMsg[s][k], s)
                     /\ status' = IF k = "ready" THEN [status EXCEPT ![s] = "Running"]
                                  ELSE status
               /\ children' = [children EXCEPT ![i].left = @ - 1]
               /\ UNCHANGED outThread
          ELSE /\ logs' = after[1]
               /\ status' = after[2]
               /\ outThread' = after[3]
               /\ UNCHANGED children
    /\ UNCHANGED <<process, fixed, chkThread, cmd, cmdq, mgr, foreign, hist>>

\* the return codes wait() can give for a child that has exited
ReturnCodes(c) == IF c.sig # 0 THEN {0 - c.sig} ELSE {0, 1}

\* the thread: wait() returns; a non-zero code is logged; the status is Stopped
SM_start_wait(i) ==
    /\ outThread[i].pc = "wait"
    /\ ~Alive(outThread[i].w)
    /\ LET s == children[i].svc
       IN /\ \E return_code \in ReturnCodes(children[outThread[i].w]) :
                logs' = IF return_code # 0
                        THEN SM_log_message(logs, SM_ExitedMsg[s], s)
                        ELSE logs
          /\ status' = [status EXCEPT ![s] = "Stopped"]
    /\ outThread' = [outThread EXCEPT ![i] = [pc |-> "done", w |-> None]]
    /\ UNCHANGED <<process, fixed, children, chkThread, cmd, cmdq, mgr, foreign, hist>>

SM_start(i) ==
    /\ mgr = "running"
    /\ \/ SM_start_begin(i)
       \/ SM_start_spawn(i)
       \/ SM_start_read(i)
       \/ SM_start_wait(i)

\* --------------------------------------------- SM: stop_api_server / stop_frontend
\* without a handle: kill_port and the status; with one: the log and terminate()
SM_stop_begin(s) ==
    /\ Doing("stop", s)
    /\ IF process[s] = None
       THEN /\ Pop
            /\ children' = SM_kill_port_children(children, SM_Port(s))
            /\ foreign' = SM_kill_port_foreign(foreign, SM_Port(s))
            /\ logs' = SM_kill_port_logs(logs, children, foreign, SM_Port(s))
            /\ status' = [status EXCEPT ![s] = "Stopped"]
            /\ hist' = [hist EXCEPT !.midStop =
                          IF status[s] = "Starting..." THEN @ \cup {s} ELSE @]
       ELSE /\ logs' = SM_log_message(logs, SM_StoppingMsg[s], s)
            /\ children' = terminate(children, process[s])
            /\ cmdq' = <<[op |-> "stop_wait", svc |-> s, mid |-> (status[s] = "Starting..."),
                          h |-> process[s]]>> \o Tail(cmdq)
            /\ UNCHANGED <<cmd, status, foreign, hist>>
    /\ UNCHANGED <<process, fixed, outThread, chkThread, mgr>>

\* wait(timeout=10) on the handle h returns; or it times out and the child
\* tracked by then is killed
SM_stop_end(s) ==
    /\ mgr = "running" /\ cmdq # <<>>
    /\ Head(cmdq).op = "stop_wait" /\ Head(cmdq).svc = s
    /\ Pop
    /\ logs' = SM_log_message(logs, IF Alive(Head(cmdq).h) THEN SM_KilledMsg[s]
                                     ELSE SM_StoppedMsg[s], s)
    /\ children' = IF Alive(Head(cmdq).h) THEN kill(children, process[s]) ELSE children
    /\ process' = [process EXCEPT ![s] = None]
    /\ status' = [status EXCEPT ![s] = "Stopped"]
    /\ hist' = [hist EXCEPT !.midStop = IF Head(cmdq).mid THEN @ \cup {s} ELSE @]
    /\ UNCHANGED <<fixed, outThread, chkThread, mgr, foreign>>

\* terminate() or wait() raises something other than TimeoutExpired: the
\* except clause logs it and the stop returns.  Only for a child still running
SM_stop_raise(s) ==
    /\ Doing("stop", s)
    /\ process[s] # None
    /\ Alive(process[s])
    /\ Pop
    /\ logs' = SM_log_message(SM_log_message(logs, SM_StoppingMsg[s], s),
                               SM_StopErrMsg[s], s)
    /\ UNCHANGED <<process, status, fixed, children, outThread, chkThread, mgr, foreign, hist>>

SM_stop_server(s) == SM_stop_begin(s) \/ SM_stop_end(s) \/ SM_stop_raise(s)

SM_stop_api_server == SM_stop_server("api")
SM_stop_frontend == SM_stop_server("frontend")

\* ------------------------------------------------------------ SM: the children
SM_ChildBind(i) ==
    /\ mgr = "running"
    /\ Alive(i)
    /\ children[i].port = 0
    /\ ~is_port_in_use(SM_Port(children[i].svc))
    /\ children' = [children EXCEPT ![i].port = SM_Port(children[i].svc)]
    /\ EnvFrame

SM_Next ==
    \/ SM_start_all_services
    \/ SM_stop_all_services
    \/ \E s \in Services : SM_start_button(s)
    \/ \E s \in Services : SM_stop_button(s)
    \/ SM_on_closing
    \/ destroy
    \/ KeyboardInterrupt
    \/ SM_start_api_server
    \/ SM_start_frontend
    \/ SM_stop_api_server
    \/ SM_stop_frontend
    \/ \E i \in DOMAIN children : SM_start(i)
    \/ \E i \in DOMAIN children : SM_ChildBind(i)
    \/ \E i \in DOMAIN children : ChildExit(i)

SpecLegacy == SM_Init /\ [][SM_Next]_vars

\* the threads and the command thread are scheduled; the user is not obliged
\* to do anything, nor is a child obliged to write, bind or exit (the only
\* thread step taken with a live child is the reading of a line it wrote)
FairLegacy ==
    /\ SpecLegacy
    /\ \A i \in 1..MaxChildren :
          WF_vars(i \in DOMAIN children /\ ~Alive(i) /\ SM_start(i))
    /\ WF_vars(SM_start_api_server \/ SM_start_frontend \/ SM_stop_api_server
               \/ SM_stop_frontend \/ destroy)

(***************************************************************************)
(* The properties.                                                         *)
(***************************************************************************)
LiveChildren(s) == {i \in DOMAIN children : children[i].svc = s /\ Alive(i)}

\* C1: for each service, in every reachable state, at most one child the
\* manager spawned for that service is alive.
C1_AtMostOneLiveChild == \A s \in Services : Cardinality(LiveChildren(s)) <= 1

\* C2: once a stop issued while the service was Starting has completed, and
\* as long as no further start is issued, the status is Stopped and stays
\* Stopped, and the service has no live child.
C2_StopMidStartStaysStopped ==
    \A s \in hist.midStop : status[s] = "Stopped" /\ LiveChildren(s) = {}

\* C3: when the manager process has exited, on whatever path, no child it
\* spawned is still alive.
C3_NoLiveChildAfterExit ==
    mgr = "exited" => \A s \in Services : LiveChildren(s) = {}

\* C4: when a stop_all_services that directly follows a start_all_services
\* returns, every service (api, frontend, websocket) has status Stopped and a
\* cleared handle, and no child is alive.
C4_RoundTrip ==
    [][(cmd.name = "stop_all_services" /\ cmd.rt /\ cmd'.name = "idle")
       => /\ \A p \in Procs : status'[p] = "Stopped" /\ process'[p] = None
          /\ \A i \in DOMAIN children' : children'[i].st # "alive"]_vars

\* C5: in every reachable state every log channel holds at most LogCap entries.
C5_ChannelsBounded == \A c \in DOMAIN logs : Len(logs[c]) <= LogCap

\* C6: the step of a stop for a service that is Stopped and has no tracked
\* handle changes no status, no handle, no log channel, and kills no process.
C6_StopOfStoppedIsNoOp ==
    [][\A s \in Services :
          (Doing("stop", s) /\ cmdq' = Tail(cmdq)
           /\ process[s] = None /\ status[s] = "Stopped")
          => /\ status' = status /\ process' = process /\ logs' = logs
             /\ children' = children /\ foreign' = foreign]_vars

\* C7: when stop_all_services returns, every service that had a tracked handle
\* when it was called has status Stopped, a cleared handle and no live child.
C7_StopAllStopsAll ==
    [][(cmd.name = "stop_all_services" /\ cmd'.name = "idle")
       => \A s \in cmd.had :
             /\ status'[s] = "Stopped" /\ process'[s] = None
             /\ \A i \in DOMAIN children' :
                   children'[i].svc = s => children'[i].st # "alive"]_vars

\* C8: a tracked child that exited on its own (no signal sent) while its
\* service was Starting or Running leaves the service Stopped once the threads
\* started for it have finished and the command thread is idle: from there on
\* nothing is left to set the status.
C8_OwnExitEndsStopped ==
    \A i \in DOMAIN children :
       (/\ children[i].st = "exited" /\ children[i].sig = 0
        /\ children[i].at \in {"Starting...", "Running"}
        /\ process[children[i].svc] = i
        /\ outThread[i] = "done" /\ chkThread[i] = "done"
        /\ Idle)
       => status[children[i].svc] = "Stopped"

\* C9: whenever a service's status is Starting while the manager runs, it
\* eventually becomes something else (Running, Failed, Stopped), unless the
\* manager exits first.
C9_StartingIsDecided ==
    \A s \in Services :
       (mgr = "running" /\ status[s] = "Starting...")
          ~> (status[s] # "Starting..." \/ mgr = "exited")

\* C10: the step in which the API child's output line with the readiness
\* marker is read while the API status is Starting sets the status to Running.
C10_MarkerMakesRunning ==
    [][\A i \in DOMAIN children :
          (/\ children[i].svc = "api" /\ status["api"] = "Starting..."
           /\ children'[i].left < children[i].left
           /\ logs'["api"] # <<>>
           /\ logs'["api"][Len(logs'["api"])] = LineMsg["api"]["ready"])
          => status'["api"] = "Running"]_vars

\* the probe of the service's check finds nothing listening
NoReadinessSignal(s) ==
    IF s = "api" THEN ~is_port_in_use(ApiPort)
    ELSE ~is_port_in_use(FrontendPort) /\ FirstFallback = 0

\* C11: the step of a readiness check that finds nothing listening sets the
\* status to Failed and leaves every child and every handle as they are; a
\* stop of a Failed service with a tracked handle that goes on to its graceful
\* wait has sent that child SIGTERM and kept the handle, and the end of the stop leaves the status Stopped, the
\* handle cleared and that child dead.
C11_FailedKeepsChild ==
    [][/\ \A i \in DOMAIN children :
             (chkThread[i] = "sleep" /\ chkThread'[i] = "done"
              /\ NoReadinessSignal(children[i].svc))
             => /\ status'[children[i].svc] = "Failed to start"
                /\ children' = children /\ process' = process
       /\ \A s \in Services :
             (Doing("stop", s) /\ cmdq' # <<>> /\ Head(cmdq').op = "stop_wait"
              /\ status[s] = "Failed to start" /\ process[s] # None)
             => /\ process' = process
                /\ Alive(process[s]) => children'[process[s]].sig = 15
       /\ \A s \in Services :
             (cmdq # <<>> /\ Head(cmdq).op = "stop_wait" /\ Head(cmdq).svc = s
              /\ cmdq' = Tail(cmdq))
             => /\ status'[s] = "Stopped" /\ process'[s] = None
                /\ children'[process[s]].st # "alive"]_vars

\* a stop is under way for a service the check left Failed with its child alive
C11_StopOfFailedChild ==
    \E s \in Services :
       /\ cmdq # <<>> /\ Head(cmdq).op = "stop_wait" /\ Head(cmdq).svc = s
       /\ status[s] = "Failed to start"
       /\ Alive(process[s]) /\ children[process[s]].sig = 15

\* the step in which a start of service s returns: at once, or after npm install
StartReturns(s) ==
    \/ Doing("start", s) /\ cmdq' = Tail(cmdq)
    \/ Installing(s) /\ (cmdq' = <<>> \/ Head(cmdq').op # "install")

\* the last entry of the combined channel
LastCombined(L) == IF L["combined"] = <<>> THEN "" ELSE L["combined"][Len(L["combined"])]

\* C12: the step of a start whose dependency install fails sets the service's
\* status to Failed and spawns no child.
C12_InstallFailureFails ==
    [][\A s \in Services :
          (StartReturns(s) /\ LastCombined(logs') = InstallErrMsg[s])
          => status'[s] = "Failed to start" /\ children' = children]_vars

\* the processes spawned so far for service s
Born(ch, s) == {i \in DOMAIN ch : ch[i].svc = s /\ ch[i].st # "unborn"}

\* C13: for a service whose directory has no package.json, no step (of a
\* start or of a thread a start began) creates a child process, sets a handle
\* or moves the status away from Stopped.
C13_NoManifestNoChild ==
    [][\A s \in Services \ manifest :
          /\ Born(children', s) = Born(children, s)
          /\ process'[s] = process[s]
          /\ status[s] = "Stopped" => status'[s] = "Stopped"]_vars

\* C14: when a start of a Stopped service whose manifest is present returns,
\* the status of the service is Starting.
C14_StartLeavesStarting ==
    [][\A s \in manifest :
          (StartReturns(s) /\ status[s] = "Stopped")
          => status'[s] = "Starting..."]_vars

\* C15: the step of a start for a service whose tracked child is alive spawns
\* no process, starts no thread, leaves every handle and status as they are,
\* and logs the "already running" entry and nothing else.
C15_StartOfLiveIsLogOnly ==
    [][\A s \in Services :
          (Doing("start", s) /\ cmdq' = Tail(cmdq)
           /\ process[s] # None /\ Alive(process[s]))
          => /\ children' = children /\ outThread' = outThread
             /\ chkThread' = chkThread
             /\ process' = process /\ status' = status
             /\ logs' = log_message(logs, AlreadyMsg[s], "combined")]_vars

\* the same for StartManager.py, whose entry goes to the service's channel
C15_SM_StartOfLiveIsLogOnly ==
    [][\A s \in Services :
          (Doing("start", s) /\ cmdq' = Tail(cmdq)
           /\ process[s] # None /\ Alive(process[s]))
          => /\ children' = children /\ outThread' = outThread
             /\ process' = process /\ status' = status
             /\ logs' = SM_log_message(logs, SM_AlreadyMsg[s], s)]_vars

\* a start has just answered "already running" for a service whose child lives
C15_AlreadyRunningAnswered ==
    \E s \in Services :
       /\ process[s] # None /\ Alive(process[s])
       /\ LastCombined(logs) = AlreadyMsg[s]

\* the statuses that report the service as running after a start
RunningStatuses == {"Running"} \cup {RunningPortText(FallbackPorts[k]) : k \in DOMAIN FallbackPorts}

\* C16: no step changes a service's status from Failed to Running or from
\* Running to Failed.
C16_DecidedIsTerminal ==
    [][\A s \in Services :
          /\ status[s] = "Failed to start" => status'[s] \notin RunningStatuses
          /\ status[s] \in RunningStatuses => status'[s] # "Failed to start"]_vars


\* C17: when stop_all_services is abandoned because stopping one service
\* raised (an error other than the graceful-wait timeout), every other
\* service has nevertheless been stopped: its handle is cleared and it has
\* no live child.
C17_StopAllSurvivesError ==
    [][ \A s \in Services :
          (/\ cmd.name = "stop_all_services"
           /\ Doing("stop", s)
           /\ process[s] # None
           /\ cmdq' = <<>>)
          => \A r \in Services \ {s} :
                /\ process'[r] = None
                /\ {i \in DOMAIN children' : children'[i].svc = r /\ children'[i].st = "alive"} = {} ]_vars


\* C18: start_all_services issues the API start before the frontend start,
\* and a frontend child is never spawned while the thread of an API start
\* issued before it has not yet reached the end of its Popen (spawned the
\* API child or given up).
C18_ApiSpawnedFirst ==
    [][/\ (cmd.name = "start_all_services" /\ Doing("start", "frontend"))
          => \A n \in DOMAIN cmdq : cmdq[n] # Op("start", "api")
       /\ \A k \in DOMAIN children :
             (/\ children[k].svc = "frontend"
              /\ children[k].st = "unborn"
              /\ children'[k].st = "alive")
             => \A j \in 1..(k - 1) :
                   children[j].svc = "api" => outThread[j].pc \notin {"begin", "spawn"}]_vars

\* C18, start-manager.py: within start_all_services the frontend child is
\* created only after the API start has returned.
C18_SyncApiFirst ==
    [][(cmd.name = "start_all_services"
        /\ \E k \in DOMAIN children' : k \notin DOMAIN children /\ children'[k].svc = "frontend")
       => \A n \in DOMAIN cmdq : cmdq[n] # Op("start", "api")]_vars


\* C19: when the stop that was requested during the dependency install of a
\* start has run (the handle was empty, or the graceful wait is over), the
\* service has no handle and no live child.
C19_QueuedStopLeavesNoChild ==
    [][\A s \in Services :
          (/\ cmd.queued /\ cmd'.name = "idle"
           /\ cmdq # <<>> /\ Head(cmdq).svc = s
           /\ (Head(cmdq).op = "stop_wait" \/ process[s] = None))
          => /\ process'[s] = None
             /\ {i \in DOMAIN children' : children'[i].svc = s /\ children'[i].st = "alive"} = {}]_vars

\* the stop requested during the install waits on the child spawned after it
C19_QueuedStopOfNewChild ==
    /\ cmd.queued /\ cmdq # <<>> /\ Head(cmdq).op = "stop_wait"
    /\ Alive(process[Head(cmdq).svc])
    /\ children[process[Head(cmdq).svc]].sig = 15

\* the stop requested during the install finds no handle: the install failed
C19_QueuedStopOfNothing ==
    /\ cmd.queued /\ cmdq # <<>> /\ Head(cmdq).op = "stop"
    /\ process[Head(cmdq).svc] = None


\* C20: the step in which an output thread logs a line of its service with
\* log_message(line, c) appends that one entry to channel c (the oldest entry
\* giving way at the capacity) and to the combined channel, once each, and
\* leaves every other channel as it is.
C20_FanIn ==
    [][\A i \in DOMAIN children :
          (outThread[i] = "read" /\ outThread'[i] = "poll")
          => LET c == children[i].svc
             IN \E k \in LineKinds :
                   /\ logs'[c] = LastN(Append(logs[c], LineMsg[c][k]), LogCap)
                   /\ logs'["combined"] = Append(logs["combined"], LineMsg[c][k])
                   /\ \A o \in Channels \ {c, "combined"} : logs'[o] = logs[o]]_vars

\* a line of a service has been logged: it is the newest entry of the
\* service's channel and of the combined channel
C20_LineInBoth ==
    \E c \in Services : \E k \in LineKinds :
       /\ logs[c] # <<>> /\ logs[c][Len(logs[c])] = LineMsg[c][k]
       /\ LastCombined(logs) = LineMsg[c][k]

\* C20, StartManager.py: the step in which the start thread logs a line of
\* its service appends that one entry to the service's channel and to the
\* combined channel, once each, and leaves the other channel as it is.
C20_SM_FanIn ==
    [][\A i \in DOMAIN children :
          (/\ outThread[i].pc = "read" /\ outThread'[i].pc = "read"
           /\ children'[i].left < children[i].left)
          => LET c == children[i].svc
             IN \E k \in LineKinds :
                   /\ logs'[c] = Append(logs[c], SM_LineMsg[c][k])
                   /\ logs'["combined"] = Append(logs["combined"], SM_LineMsg[c][k])
                   /\ \A o \in SM_Channels \ {c, "combined"} : logs'[o] = logs[o]]_vars


(***************************************************************************)
(* The log channels on their own: any sequence of log_message calls and    *)
(* of clear_logs, whoever makes them.  Only logs changes; cmd holds the    *)
(* last call made and hist.appended, per channel, the entries appended to  *)
(* it since it was last cleared.                                           *)
(***************************************************************************)
\* the entries logged
LogEntries == {"e1", "e2"}
\* entries appended to one channel between two clears
MaxAppends == 3

IsPrefix(a, b) == Len(a) <= Len(b) /\ SubSeq(b, 1, Len(a)) = a

LogsRest ==
    /\ process = [p \in Procs |-> None]
    /\ status = [p \in Procs |-> "Stopped"]
    /\ foreign = {}
    /\ npm_cmd = TRUE
    /\ manifest = Services
    /\ deps = AllDeps
    /\ children = <<>>
    /\ outThread = <<>>
    /\ chkThread = <<>>
    /\ cmd = NoCmd
    /\ cmdq = <<>>
    /\ mgr = "running"
    /\ session = "all"

LogsFrame == UNCHANGED <<process, status, fixed, children, outThread, chkThread, cmdq, mgr,
                         foreign>>

LogsInit ==
    /\ LogsRest
    /\ logs = [c \in Channels |-> <<>>]
    /\ hist = [midStop |-> {}, appended |-> [c \in Channels |-> <<>>]]

\* a call self.log_message(m, c)
LogsCall(c) ==
    /\ Len(hist.appended[c]) < MaxAppends
    /\ Len(hist.appended["combined"]) < MaxAppends
    /\ \E m \in LogEntries :
          /\ logs' = log_message(logs, m, c)
          /\ cmd' = [name |-> "log_message", c |-> c, m |-> m]
          /\ hist' = [hist EXCEPT !.appended =
                        [o \in Channels |-> IF o \in {c, "combined"}
                                            THEN Append(@[o], m) ELSE @[o]]]
    /\ LogsFrame

\* clear_logs of start-manager.py with log_type_var at c: that list is cleared
clear_logs(c) ==
    /\ logs' = [logs EXCEPT ![c] = <<>>]
    /\ cmd' = [name |-> "clear_logs", c |-> c, m |-> ""]
    /\ hist' = [hist EXCEPT !.appended[c] = <<>>]
    /\ LogsFrame

LogsNext ==
    \/ \E c \in Channels : LogsCall(c)
    \/ \E c \in Channels : clear_logs(c)

SpecLogs == LogsInit /\ [][LogsNext]_vars

SM_LogsInit ==
    /\ LogsRest
    /\ logs = [c \in SM_Channels |-> <<>>]
    /\ hist = [midStop |-> {}]

\* a call self.log_message(m, c) of StartManager.py
SM_LogsCall(c) ==
    /\ LogRoom
    /\ \E m \in LogEntries :
          /\ logs' = SM_log_message(logs, m, c)
          /\ cmd' = [name |-> "log_message", c |-> c, m |-> m]
    /\ UNCHANGED hist
    /\ LogsFrame

\* clear_logs of StartManager.py: self.logs is replaced by empty lists, then
\* "Logs cleared" is logged
SM_clear_logs ==
    /\ logs' = SM_log_message([c \in SM_Channels |-> <<>>], "Logs cleared", "combined")
    /\ cmd' = [name |-> "clear_logs", c |-> "", m |-> ""]
    /\ UNCHANGED hist
    /\ LogsFrame

SM_LogsNext ==
    \/ \E c \in SM_Channels : SM_LogsCall(c)
    \/ SM_clear_logs

SpecLegacyLogs == SM_LogsInit /\ [][SM_LogsNext]_vars

\* C21: a clear_logs step takes entries away from at most one channel: every
\* other channel still begins with all the entries it held.
C21_ClearIsPerChannel ==
    [][cmd'.name = "clear_logs"
       => Cardinality({o \in DOMAIN logs : ~IsPrefix(logs[o], logs'[o])}) <= 1]_vars

\* C21, start-manager.py: clear_logs with channel c selected leaves c empty
\* and every other channel exactly as it was.
C21_ClearsSelectedOnly ==
    [][cmd'.name = "clear_logs"
       => /\ logs'[cmd'.c] = <<>>
          /\ \A o \in Channels \ {cmd'.c} : logs'[o] = logs[o]]_vars

\* C22: every channel holds the newest entries appended to it since it was
\* last cleared, in their order, and no more of them than the capacity.
C22_FifoEviction ==
    \A c \in Channels : logs[c] = LastN(hist.appended[c], LogCap)


\* the stop of service s is in its graceful wait / the child it waits for
StopWaiting(s) == cmdq # <<>> /\ Head(cmdq).op = "stop_wait" /\ Head(cmdq).svc = s
Waited(s) == IF "h" \in DOMAIN Head(cmdq) THEN Head(cmdq).h ELSE process[s]

\* C23: a stop with a tracked handle sends SIGTERM to the tracked child
\* before it waits; the end of the wait ends a child by SIGKILL only if that
\* child was sent SIGTERM and the child waited for is still alive, and
\* changes no child when the child waited for has exited.
C23_TerminateBeforeKill ==
    [][\A s \in Services :
          /\ (Doing("stop", s) /\ cmdq' # <<>> /\ Head(cmdq').op = "stop_wait"
               /\ Alive(process[s]))
             => children'[process[s]].sig = 15
          /\ (StopWaiting(s) /\ cmdq' = Tail(cmdq))
             => /\ \A i \in DOMAIN children :
                      (children[i].st = "alive" /\ children'[i].st # "alive")
                      => children[i].sig = 15 /\ i = Waited(s)
                /\ ~Alive(Waited(s)) => children' = children]_vars

\* a stop waits for a child that ignores SIGTERM: the wait will time out
C23_WaitOnLiveChild ==
    \E s \in Services : StopWaiting(s) /\ Alive(process[s])
                          /\ children[process[s]].sig = 15


\* C24: a stop of a service whose tracked child has already exited is not
\* abandoned by an error: it goes on to its wait, and when the wait is over
\* the handle is cleared and the status is Stopped.
C24_StopOfExitedChild ==
    [][\A s \in Services :
          /\ (Doing("stop", s) /\ cmdq' # cmdq /\ process[s] # None /\ ~Alive(process[s]))
             => cmdq' # <<>> /\ Head(cmdq').op = "stop_wait" /\ children' = children
          /\ (StopWaiting(s) /\ ~Alive(Waited(s)) /\ cmdq' = Tail(cmdq))
             => process'[s] = None /\ status'[s] = "Stopped"]_vars

\* a stop waits for a child that exited on its own, with no signal sent
C24_StopWaitsOnExited ==
    \E s \in Services :
       /\ StopWaiting(s) /\ process[s] # None
       /\ children[process[s]].st = "exited" /\ children[process[s]].sig = 0


\* C25: the step of a start in which the spawn raises (the except clause
\* logs the start error) returns to the caller, tracks no new handle, creates
\* no child and leaves the status of the service Failed.
C25_SpawnErrorFails ==
    [][\A s \in Services :
          (StartReturns(s) /\ LastCombined(logs') = StartErrMsg[s])
          => /\ process' = process /\ children' = children
             /\ status'[s] = "Failed to start"]_vars


\* C26: a child process appears only as the effect of a start call for its
\* service, and not after a stop of that service has completed with no start
\* called since: the list of children grows only in a step of a start for
\* the new child's service, a child that has exited never runs again, and a
\* start thread spawns no child for a service stopped since its start.
C26_NoSpawnWithoutStart ==
    [][/\ Len(children') > Len(children)
          => /\ Len(children') = Len(children) + 1
             /\ cmdq # <<>> /\ Head(cmdq).op \in {"start", "install"}
             /\ Head(cmdq).svc = children'[Len(children')].svc
       /\ \A i \in DOMAIN children :
             /\ children[i].st = "exited" => children'[i].st = "exited"
             /\ (children[i].st = "unborn" /\ children'[i].st = "alive")
                => children[i].svc \notin hist.midStop]_vars


(***************************************************************************)
(* src/test-start.py: main() constructs the manager of start-manager.py in *)
(* web mode, calls check_dependencies and returns 1 when it is false, then *)
(* check_running_processes and start_all_services, sleeps while the        *)
(* threads and children run, prints the statuses and returns 0.  cmd holds *)
(* what check_dependencies returned and the exit code; the status of the   *)
(* dependencies is status["dependencies"].  The check and cross marks of   *)
(* the log lines are written "ok" and "missing".                           *)
(***************************************************************************)
RECURSIVE LogAll(_, _)
\* log_message for each message in turn, to the combined channel
LogAll(L, msgs) ==
    IF msgs = <<>> THEN L ELSE LogAll(log_message(L, Head(msgs), "combined"), Tail(msgs))

\* the dependencies dictionary of check_dependencies, in its order
Dependencies ==
    <<[dep |-> "Python", ok |-> deps.python],
      [dep |-> "npm", ok |-> npm_cmd],
      [dep |-> "Node.js API", ok |-> "api" \in manifest],
      [dep |-> "React Frontend", ok |-> "frontend" \in manifest]>>

\* check_dependencies of start-manager.py: what it logs, the status text it
\* sets and the value it returns
check_dependencies(L) ==
    LET all_good == \A k \in DOMAIN Dependencies : Dependencies[k].ok
        text == IF all_good THEN "All dependencies available"
                ELSE "Some dependencies missing"
        last == IF all_good THEN "ok All dependencies are available"
                ELSE "missing Some dependencies are missing"
    IN [logs |-> LogAll(L, <<"Checking dependencies...">>
                              \o [k \in DOMAIN Dependencies |->
                                     IF Dependencies[k].ok
                                     THEN "  ok " \o Dependencies[k].dep
                                     ELSE "  missing " \o Dependencies[k].dep]
                              \o <<last>>),
        dependencies_status |-> text,
        all_good |-> all_good]

TestCmd(r, c) == [name |-> "main", had |-> {}, rt |-> FALSE, queued |-> FALSE,
                  ret |-> r, code |-> c]

TestInit ==
    /\ process = [p \in Procs |-> None]
    /\ foreign \in ForeignChoices
    /\ status = [p \in Procs \cup {"dependencies"} |->
                  IF p = "dependencies" THEN "Checking..." ELSE "Stopped"]
    /\ logs = [c \in Channels |-> <<>>]
    /\ npm_cmd \in BOOLEAN
    /\ manifest \in SUBSET Services
    /\ deps \in {[AllDeps EXCEPT !.python = p] : p \in BOOLEAN}
    /\ children = <<>>
    /\ outThread = <<>>
    /\ chkThread = <<>>
    /\ cmd = TestCmd("none", -1)
    /\ cmdq = <<Op("check_dependencies", "all"), Op("check_running_processes", "all"),
                Op("start_all_services", "all"), Op("return", "all")>>
    /\ mgr = "running"
    /\ hist = [midStop |-> {}]
    /\ session = "test"

\* `if not manager.check_dependencies(): return 1`
test_check_dependencies ==
    /\ Doing("check_dependencies", "all")
    /\ LET r == check_dependencies(logs)
       IN /\ logs' = r.logs
          /\ status' = [status EXCEPT !["dependencies"] = r.dependencies_status]
          /\ IF r.all_good
             THEN /\ cmdq' = Tail(cmdq)
                  /\ cmd' = TestCmd(TRUE, -1)
                  /\ mgr' = mgr
             ELSE /\ cmdq' = <<>>
                  /\ cmd' = TestCmd(FALSE, 1)
                  /\ mgr' = "exited"
    /\ UNCHANGED <<process, fixed, children, outThread, chkThread, foreign, hist>>

\* what check_running_processes logs when it finds the statuses found
RunningLogs(L, found) ==
    LogAll(L, <<"Checking for running services...">>
              \o (IF found["api"] # "Stopped"
                  THEN <<"API Server is already running on port 3470">> ELSE <<>>)
              \o (IF found["frontend"] # "Stopped"
                  THEN <<"Frontend is already running">> ELSE <<>>))

\* manager.check_running_processes()
test_check_running_processes ==
    /\ Doing("check_running_processes", "all")
    /\ cmdq' = Tail(cmdq)
    /\ LET found == check_running_processes(foreign)
       IN /\ status' = [p \in DOMAIN status |->
                          IF p \in Procs /\ found[p] # "Stopped" THEN found[p] ELSE status[p]]
          /\ logs' = RunningLogs(logs, found)
    /\ UNCHANGED <<process, fixed, children, outThread, chkThread, cmd, mgr, foreign, hist>>

\* manager.start_all_services(): the log, then the three starts
test_start_all_services ==
    /\ Doing("start_all_services", "all")
    /\ logs' = log_message(logs, "Starting all services...", "combined")
    /\ cmdq' = <<Op("start", "api"), Op("start_ws", "websocket"), Op("start", "frontend")>>
                \o Tail(cmdq)
    /\ UNCHANGED <<process, status, fixed, children, outThread, chkThread, cmd, mgr, foreign,
                   hist>>

\* the sleep is over: the statuses are printed and main returns 0
test_return ==
    /\ Doing("return", "all")
    /\ cmdq' = <<>>
    /\ cmd' = [cmd EXCEPT !.code = 0]
    /\ mgr' = "exited"
    /\ UNCHANGED <<process, status, logs, fixed, children, outThread, chkThread, foreign, hist>>

TestNext ==
    \/ test_check_dependencies
    \/ test_check_running_processes
    \/ test_start_all_services
    \/ test_return
    \/ start_api_server
    \/ start_frontend_server
    \/ start_websocket_server
    \/ \E s \in Services : install_done(s)
    \/ \E i \in DOMAIN children : log_output(i)
    \/ \E i \in DOMAIN children : check_startup(i)
    \/ \E i \in DOMAIN children : ChildBind(i)
    \/ \E i \in DOMAIN children : ChildExit(i)

SpecTest == TestInit /\ [][TestNext]_vars

\* C27, start-manager.py: check_dependencies returns true exactly when
\* python, npm and both package.json files are there, sets the status text
\* that goes with what it returns, and when it returns false the test ends
\* with exit code 1 and no child is ever spawned.
C27_CheckDependencies ==
    [][/\ (Doing("check_dependencies", "all") /\ cmdq' # cmdq)
          => LET avail == deps.python /\ npm_cmd /\ manifest = Services
             IN /\ cmd'.ret = avail
                /\ status'["dependencies"] = IF avail THEN "All dependencies available"
                                             ELSE "Some dependencies missing"
                /\ ~avail => mgr' = "exited" /\ cmd'.code = 1
       /\ cmd'.ret = FALSE => children' = <<>>]_vars


(***************************************************************************)
(* check_dependencies of StartManager.py on its own: the call starts a     *)
(* thread and returns; the thread logs, probes the commands and the        *)
(* project directories and sets the status of the dependencies.  cmd holds *)
(* the last call and what it returned (FALSE for None); outThread holds    *)
(* the check_deps threads.                                                 *)
(***************************************************************************)
\* calls of check_dependencies in one run
MaxChecks == 2

\* check_project_dependencies(path): node_modules and package.json both exist
SM_check_project_dependencies(s) == s \in deps.modules /\ s \in manifest

SM_DepsInit ==
    /\ process = [p \in Procs |-> None]
    /\ foreign = {}
    /\ status = [p \in Procs \cup {"dependencies"} |->
                  IF p = "dependencies" THEN "Checking..." ELSE "Stopped"]
    /\ logs = [c \in SM_Channels |-> <<>>]
    /\ npm_cmd \in BOOLEAN
    /\ manifest \in SUBSET Services
    /\ deps \in [python : BOOLEAN, node : BOOLEAN, modules : SUBSET Services,
                  netstat : {TRUE}]
    /\ children = <<>>
    /\ outThread = <<>>
    /\ chkThread = <<>>
    /\ cmd = NoCmd
    /\ cmdq = <<>>
    /\ mgr = "running"
    /\ hist = [midStop |-> {}]
    /\ session = "test"

\* check_dependencies(): threading.Thread(target=check_deps).start(); the
\* function ends without a return statement
SM_check_dependencies ==
    /\ Len(outThread) < MaxChecks
    /\ outThread' = Append(outThread, [pc |-> "check_deps", w |-> None])
    /\ cmd' = [name |-> "check_dependencies", ret |-> FALSE]
    /\ UNCHANGED <<process, status, logs, fixed, children, chkThread, cmdq, mgr, foreign, hist>>

\* the thread check_deps
SM_check_deps(i) ==
    /\ outThread[i].pc = "check_deps"
    /\ outThread' = [outThread EXCEPT ![i].pc = "done"]
    /\ logs' = SM_log_message(logs, "Checking dependencies...", "combined")
    /\ LET all_good == /\ deps.node /\ npm_cmd
                        /\ SM_check_project_dependencies("api")
                        /\ SM_check_project_dependencies("frontend")
       IN status' = [status EXCEPT !["dependencies"] =
                        IF all_good THEN "Ready" ELSE "Issues found"]
    /\ UNCHANGED <<process, fixed, children, chkThread, cmd, cmdq, mgr, foreign, hist>>

SM_DepsNext ==
    \/ SM_check_dependencies
    \/ \E i \in DOMAIN outThread : SM_check_deps(i)

SpecLegacyDeps == SM_DepsInit /\ [][SM_DepsNext]_vars

\* C27: the call of check_dependencies returns true exactly when every
\* required dependency is available (node, pnpm, and node_modules and
\* package.json of both services).
C27_ReturnTellsAvailability ==
    [][cmd'.name = "check_dependencies"
       => cmd'.ret = (/\ deps.node /\ npm_cmd
                      /\ SM_check_project_dependencies("api")
                      /\ SM_check_project_dependencies("frontend"))]_vars


(***************************************************************************)
(* The web fallback of start-manager.py: run() has called                  *)
(* check_dependencies and check_running_processes, and serve_forever       *)
(* answers one request at a time with ManagerHandler, which defines do_GET *)
(* only.  cmd holds the last request, the manager operation it called and  *)
(* the status code of the reply.                                           *)
(***************************************************************************)
\* the actions of the control page and the manager operation of each
WebActions == {"start_all", "stop_all", "start_api", "stop_api", "start_frontend",
               "stop_frontend", "install_deps", "clear_logs"}
Operation ==
    [start_all |-> "start_all_services", stop_all |-> "stop_all_services",
     start_api |-> "start_api_server", stop_api |-> "stop_api_server",
     start_frontend |-> "start_frontend_server", stop_frontend |-> "stop_frontend_server",
     install_deps |-> "install_dependencies", clear_logs |-> "clear_logs"]

Request(method, what, called, reply) ==
    [name |-> "idle", had |-> {}, rt |-> FALSE, queued |-> FALSE,
     method |-> method, what |-> what, called |-> called, reply |-> reply]

WebInit ==
    /\ process = [p \in Procs |-> None]
    /\ foreign \in ForeignChoices
    /\ npm_cmd \in BOOLEAN
    /\ manifest \in SUBSET Services
    /\ deps \in {[AllDeps EXCEPT !.python = p] : p \in BOOLEAN}
    /\ LET r == check_dependencies([c \in Channels |-> <<>>])
           found == check_running_processes(foreign)
       IN /\ status = [p \in Procs \cup {"dependencies"} |->
                         IF p = "dependencies" THEN r.dependencies_status ELSE found[p]]
          /\ logs = RunningLogs(r.logs, found)
    /\ children = <<>>
    /\ outThread = <<>>
    /\ chkThread = <<>>
    /\ cmd = Request("", "", "none", 0)
    /\ cmdq = <<>>
    /\ mgr = "running"
    /\ hist = [midStop |-> {}]
    /\ session = "web"

WebFrame == UNCHANGED <<process, status, logs, fixed, children, outThread, chkThread, cmdq,
                        mgr, foreign, hist>>

\* do_GET: the control page for / and /index.html, else the file server of
\* SimpleHTTPRequestHandler, for a path that names no file
do_GET(path) ==
    /\ mgr = "running"
    /\ cmd' = Request("GET", path, "none",
                      IF path \in {"/", "/index.html"} THEN 200 ELSE 404)
    /\ WebFrame

\* a POST: ManagerHandler has no do_POST, and the base handler answers a
\* method without a do_ method with 501 Unsupported method
web_POST(body) ==
    /\ mgr = "running"
    /\ cmd' = Request("POST", body, "none", 501)
    /\ WebFrame

\* Ctrl+C in serve_forever: "Shutting down...", run and main return
web_KeyboardInterrupt ==
    /\ mgr = "running"
    /\ mgr' = "exited"
    /\ UNCHANGED <<process, status, logs, fixed, children, outThread, chkThread, cmd, cmdq,
                   foreign, hist>>

WebNext ==
    \/ \E path \in {"/", "/index.html", "/api/status", "/missing"} : do_GET(path)
    \/ \E body \in WebActions \cup {"", "restart"} : web_POST(body)
    \/ web_KeyboardInterrupt

SpecWeb == WebInit /\ [][WebNext]_vars

\* C28: a POST to / whose action is one of the eight of the control page
\* calls the manager operation of that action and is answered 200.
C28_PostRunsOperation ==
    [][(cmd' # cmd /\ cmd'.method = "POST" /\ cmd'.what \in WebActions)
       => cmd'.called = Operation[cmd'.what] /\ cmd'.reply = 200]_vars


(***************************************************************************)
(* The port probes of start-manager.py on their own.  A frontend child has *)
(* been started and its check thread sleeps; the host has any set of       *)
(* listeners on the five frontend ports, possibly a socket with no local   *)
(* address (psutil gives laddr = () for it), and may refuse to list its    *)
(* connections.  cmd holds the last call of is_port_in_use and its         *)
(* outcome.                                                                *)
(***************************************************************************)
\* the ports check_frontend_startup and check_running_processes try, in order
ScanOrder == <<FrontendPort>> \o FallbackPorts
\* the listing works and every entry has a local address (lport 0: laddr is ())
CleanListing == deps.netstat /\ \A conn \in net_connections : conn.lport # 0

\* is_port_in_use(port) of start-manager.py, the outcomes of one call:
\* AccessDenied and NoSuchProcess are caught and give False; an entry
\* without laddr met before a match raises AttributeError, which is not caught
PortProbe(port) ==
    IF ~deps.netstat THEN {"False"}
    ELSE LET match == \E conn \in net_connections : conn.lport = port
             bad == \E conn \in net_connections : conn.lport = 0
         IN (IF match THEN {"True"} ELSE {})
            \cup (IF bad THEN {"AttributeError"} ELSE {})
            \cup (IF ~match /\ ~bad THEN {"False"} ELSE {})

PortsInit ==
    /\ process = [p \in Procs |-> IF p = "frontend" THEN 1 ELSE None]
    /\ foreign \in SUBSET ({[lport |-> ScanOrder[k], status |-> "LISTEN"] : k \in DOMAIN ScanOrder}
                           \cup {[lport |-> 0, status |-> "NONE"],
                                 [lport |-> FrontendPort, status |-> "ESTABLISHED"]})
    /\ status = [p \in Procs |-> IF p = "frontend" THEN "Starting..." ELSE "Stopped"]
    /\ logs = [c \in Channels |-> <<>>]
    /\ npm_cmd = TRUE
    /\ manifest = Services
    /\ deps \in {[AllDeps EXCEPT !.netstat = n] : n \in BOOLEAN}
    /\ children = <<NewChild("frontend")>>
    /\ outThread = <<"read">>
    /\ chkThread = <<"sleep">>
    /\ cmd = NoCmd
    /\ cmdq = <<>>
    /\ mgr = "running"
    /\ hist = [midStop |-> {}]
    /\ session = "frontend"

\* a call self.is_port_in_use(port)
port_probe(port) ==
    /\ mgr = "running"
    /\ \E r \in PortProbe(port) : cmd' = [name |-> "is_port_in_use", port |-> port, result |-> r]
    /\ UNCHANGED <<process, status, logs, fixed, children, outThread, chkThread, cmdq, mgr,
                   foreign, hist>>

\* check_frontend_startup on a host whose listing works
ports_check_frontend_startup ==
    /\ CleanListing
    /\ check_startup(1)

\* check_running_processes on a host whose listing works
ports_check_running_processes ==
    /\ CleanListing
    /\ mgr = "running"
    /\ LET found == check_running_processes(net_connections)
       IN /\ status' = [p \in Procs |-> IF found[p] # "Stopped" THEN found[p] ELSE status[p]]
          /\ logs' = RunningLogs(logs, found)
    /\ UNCHANGED <<process, fixed, children, outThread, chkThread, cmd, cmdq, mgr, foreign, hist>>

PortsNext ==
    \/ \E k \in DOMAIN ScanOrder : port_probe(ScanOrder[k])
    \/ ports_check_frontend_startup
    \/ ports_check_running_processes

SpecPorts == PortsInit /\ [][PortsNext]_vars

\* the first port of the scan that has a connection, 0 when none has
FirstInUse ==
    LET used == {k \in DOMAIN ScanOrder : \E conn \in net_connections : conn.lport = ScanOrder[k]}
    IN IF used = {} THEN 0 ELSE ScanOrder[CHOOSE k \in used : \A m \in used : k <= m]

C30_ProbeNeverRaises ==
    [][cmd'.name = "is_port_in_use"
       => /\ cmd'.result \in {"True", "False"}
          /\ ~deps.netstat => cmd'.result = "False"
          /\ (\A conn \in net_connections : conn.lport # cmd'.port) => cmd'.result = "False"
          /\ <<process, status, logs, children>>' = <<process, status, logs, children>>]_vars


\* C31: on a host whose listing works, a call of is_port_in_use(port) returns
\* True exactly when some socket with that local port is listening; a socket
\* with that local port in another state does not make it return True.
C31_ListeningOnly ==
    [][(cmd'.name = "is_port_in_use" /\ CleanListing)
       => (cmd'.result = "True"
           <=> \E conn \in net_connections :
                   conn.lport = cmd'.port /\ conn.status = "LISTEN")]_vars


(***************************************************************************)
(* The environment of a spawned child.  An environment is a function from  *)
(* variable names to values; hist holds os.environ of the manager and,     *)
(* after a start, the service started and the env handed to Popen.         *)
(***************************************************************************)
\* the variables the starts set, per service
Overrides ==
    [api |-> [PORT |-> "3470", NODE_ENV |-> "development"],
     frontend |-> [PORT |-> "3469", NEXT_PUBLIC_API_URL |-> "http://localhost:3470/api",
                   NEXT_PUBLIC_WS_URL |-> "ws://localhost:3470/ws"]]

\* env = os.environ with every override assigned to it: the manager then
\* holds the same mapping as the child
environ_update(environ, overrides) ==
    LET env == [k \in DOMAIN environ \cup DOMAIN overrides |->
                   IF k \in DOMAIN overrides THEN overrides[k] ELSE environ[k]]
    IN [environ |-> env, env |-> env]

\* env = os.environ.copy(); env[k] = v for every override
environ_copy_update(environ, overrides) ==
    [environ |-> environ,
     env |-> [k \in DOMAIN environ \cup DOMAIN overrides |->
                 IF k \in DOMAIN overrides THEN overrides[k] ELSE environ[k]]]

EnvInit ==
    /\ LogsRest
    /\ logs = [c \in Channels |-> <<>>]
    /\ \E K \in SUBSET {"PORT", "NODE_ENV", "NEXT_PUBLIC_API_URL", "NEXT_PUBLIC_WS_URL", "PATH"} :
          \E environ \in [K -> {"x", "y"}] :
             hist = [midStop |-> {}, environ |-> environ, Popen |-> "none"]

\* the env argument of the Popen of start_api_server / start_frontend_server
env_Popen(s) ==
    /\ mgr = "running"
    /\ LET r == environ_copy_update(hist.environ, Overrides[s])
       IN hist' = [midStop |-> {}, environ |-> r.environ, Popen |-> s, env |-> r.env]
    /\ UNCHANGED <<process, status, logs, fixed, children, outThread, chkThread, cmd, cmdq,
                   mgr, foreign>>

SpecEnv == EnvInit /\ [][\E s \in Services : env_Popen(s)]_vars

\* C32: the env handed to the child of a start holds the service's overrides
\* (PORT 3470 and NODE_ENV for the API; PORT 3469 and the two NEXT_PUBLIC
\* addresses for the frontend), holds every other variable of the manager
\* with the manager's value and no further variable, and the manager's own
\* environment is what it was before the start.
C32_ChildEnvironment ==
    [][hist' # hist
       => LET s == hist'.Popen
              env == hist'.env
          IN /\ DOMAIN env = DOMAIN hist.environ \cup DOMAIN Overrides[s]
             /\ \A k \in DOMAIN Overrides[s] : env[k] = Overrides[s][k]
             /\ \A k \in DOMAIN hist.environ \ DOMAIN Overrides[s] : env[k] = hist.environ[k]
             /\ s = "api" => env.PORT = "3470" /\ env.NODE_ENV = "development"
             /\ s = "frontend" => /\ env.PORT = "3469"
                                  /\ env.NEXT_PUBLIC_API_URL = "http://localhost:3470/api"
                                  /\ env.NEXT_PUBLIC_WS_URL = "ws://localhost:3470/ws"
             /\ hist'.environ = hist.environ]_vars

\* the frontend was started by a manager whose own PORT and PATH are set
C32_CollisionAndInherited ==
    /\ hist.Popen = "frontend"
    /\ {"PORT", "PATH"} \subseteq DOMAIN hist.environ
    /\ hist.environ.PORT = "x" /\ hist.env.PORT = "3469" /\ hist.env.PATH = hist.environ.PATH


\* C33: a step that changes the log channel of a service is a step of an
\* output-draining thread of that service: the command thread and the
\* readiness checks, which start, stop and check, do not move in it.
C33_OnlyDrainAppends ==
    [][\A s \in Services :
          logs'[s] # logs[s]
          => cmd' = cmd /\ cmdq' = cmdq /\ chkThread' = chkThread]_vars


\* C34: once the child of a service has exited or the service has been
\* stopped (its handle cleared), the thread draining that child's output (the
\* start thread, from its read loop on) ends (or the manager does), and no step of that thread made then appends
\* an error entry to a log or takes the status of the service away from
\* Stopped.
C34_DrainThreadEnds ==
    /\ \A i \in 1..MaxChildren :
          [](/\ i \in DOMAIN children
             /\ outThread[i].pc \in {"read", "wait"}
             /\ ~Alive(i) \/ process[children[i].svc] = None
             => <>(mgr = "exited" \/ (i \in DOMAIN outThread /\ outThread[i].pc = "done")))
    /\ [][\A i \in DOMAIN outThread \cap DOMAIN children :
            LET s == children[i].svc
                new == logs'["combined"]
            IN (/\ outThread'[i] # outThread[i] \/ children'[i].left # children[i].left
                /\ outThread[i].pc \in {"read", "wait"}
                /\ ~Alive(i) \/ process[s] = None)
               => /\ ~(/\ new # logs["combined"]
                       /\ new # <<>>
                       /\ new[Len(new)] = SM_StartErrMsg[s])
                  /\ status[s] = "Stopped" => status'[s] = "Stopped"]_vars

\* C34 for start-manager.py: no step of log_api_output / log_frontend_output
\* made after the child has exited or the handle was cleared appends the
\* read error to the log or takes the status away from Stopped.
C34_DrainEndsQuietly ==
    [][\A i \in DOMAIN outThread \cap DOMAIN children :
          LET s == children[i].svc
              new == logs'["combined"]
          IN (/\ outThread'[i] # outThread[i]
              /\ ~Alive(i) \/ process[s] = None)
             => /\ ~(/\ new # logs["combined"]
                     /\ new # <<>>
                     /\ new[Len(new)] = ReadErrMsg[s])
                /\ status[s] = "Stopped" => status'[s] = "Stopped"]_vars


\* C35: in every reachable state, a service whose status is Starting or
\* Running has a tracked handle, and the child of that handle is alive.
C35_RunningHasLiveChild ==
    \A s \in Services :
        status[s] \in {"Starting...", "Running"} => process[s] # None /\ Alive(process[s])


\* C37: a call of log_message with the default channel, made while the
\* combined channel is below its capacity, appends exactly one entry, the
\* message, to the combined channel, and changes no channel of a service.
C37_OneEntryPerCall ==
    [][(cmd'.name = "log_message" /\ cmd'.c = "combined" /\ Len(logs["combined"]) < LogCap)
       => /\ logs'["combined"] = Append(logs["combined"], cmd'.m)
          /\ \A s \in DOMAIN logs \ {"combined"} : logs'[s] = logs[s]]_vars


\* C38: the WebSocket entry never has a process handle; start_websocket_server
\* sets its status to Integrated with API and spawns nothing; and once the
\* status is Integrated with API no step, of stop_websocket_server or
\* stop_all_services or any other, sets it back to Stopped.
C38_WebSocketOwnsNothing ==
    /\ [](process["websocket"] = None)
    /\ [][/\ (Doing("start_ws", "websocket") /\ cmdq' = Tail(cmdq))
             => /\ status'["websocket"] = "Integrated with API"
                /\ <<process, children, outThread, chkThread>>'
                      = <<process, children, outThread, chkThread>>
          /\ status["websocket"] = "Integrated with API"
             => status'["websocket"] = "Integrated with API"]_vars

\* stop_all_services has gone through stop_websocket_server after a start
C38_StoppedAfterStart ==
    /\ status["websocket"] = "Integrated with API"
    /\ cmd.name = "stop_all_services"
    /\ cmdq = <<Op("stop", "frontend")>>


(***************************************************************************)
(* log_message called from several threads.  The statements of one call    *)
(* are separate steps: the command thread logs to the combined channel     *)
(* (append; len and slice; store) while the thread draining the API child  *)
(* logs lines to the api channel, which appends them to the combined       *)
(* channel too.  cmd holds the place of the command thread in its call and *)
(* the list its slice produced; hist.appended is as in SpecLogs.           *)
(***************************************************************************)
\* self.logs['combined'].append(log_entry), in log_message(m)
log_message_append ==
    /\ Idle
    /\ Len(hist.appended["combined"]) < MaxAppends
    /\ \E m \in LogEntries :
          /\ logs' = [logs EXCEPT !["combined"] = Append(@, m)]
          /\ hist' = [hist EXCEPT !.appended["combined"] = Append(@, m)]
    /\ cmd' = [name |-> "log_message", pc |-> "len", sliced |-> <<>>]
    /\ LogsFrame

\* len(self.logs['combined']) > 1000, and the right-hand side
\* self.logs['combined'][-1000:], a new list
log_message_slice ==
    /\ cmd.name = "log_message" /\ cmd.pc = "len"
    /\ cmd' = IF Len(logs["combined"]) > LogCap
              THEN [cmd EXCEPT !.pc = "store", !.sliced = LastN(logs["combined"], LogCap)]
              ELSE NoCmd
    /\ UNCHANGED <<logs, hist>>
    /\ LogsFrame

\* self.logs['combined'] = <the new list>
log_message_store ==
    /\ cmd.name = "log_message" /\ cmd.pc = "store"
    /\ logs' = [logs EXCEPT !["combined"] = cmd.sliced]
    /\ cmd' = NoCmd
    /\ UNCHANGED hist
    /\ LogsFrame

\* log_api_output: self.log_message(line, 'api') on the drain thread
log_api_output_line ==
    /\ mgr = "running"
    /\ Len(hist.appended["combined"]) < MaxAppends
    /\ \E m \in LogEntries :
          /\ logs' = log_message(logs, m, "api")
          /\ hist' = [hist EXCEPT !.appended["api"] = Append(@, m),
                                  !.appended["combined"] = Append(@, m)]
    /\ UNCHANGED cmd
    /\ LogsFrame

SpecLogRace ==
    LogsInit /\ [][log_message_append \/ log_message_slice \/ log_message_store
                   \/ log_api_output_line]_vars

\* C36: with log_message called from the command thread and a drain thread
\* at once, the combined channel holds the most recent entries appended to
\* it, in order and without a gap, and at least the last 1000 (LogCap) of
\* them: no entry is missing but the oldest ones.
C36_NoEntryLost ==
    LET a == hist.appended["combined"]
        l == logs["combined"]
    IN /\ Len(l) <= Len(a)
       /\ l = SubSeq(a, Len(a) - Len(l) + 1, Len(a))
       /\ Len(l) >= (IF Len(a) < LogCap THEN Len(a) ELSE LogCap)

====
